---- MODULE Spec2Model ----
(***************************************************************************)
(* Model of the daily pipeline of src/main.py: fetch_transactions,         *)
(* save_raw, get_latest_transactions, generate_insights and                *)
(* save_recommendation, sequenced by main() over the two tables            *)
(* transactions_raw and recommendations.                                   *)
(***************************************************************************)
EXTENDS Integers, Sequences, FiniteSets, TLC

\* ---------------------------------------------------------------- bounds
MaxDay == 2          \* calendar days the clock runs through
MaxRuns == 3         \* invocations of main() in one behaviour
NumProcs == 2        \* processes that may invoke main()
MaxConcRuns == 2     \* invocations of main() when they may overlap

Days == 1..MaxDay
Runs == 1..NumProcs

\* ---------------------------------------------------------------- values
None == "None"                       \* Python None / no row
EmptyDoc == "{}"                     \* a falsy JSON document
Payloads == {EmptyDoc, "p1", "p2"}   \* response.to_dict() values
Summaries == {"s1", "s2"}            \* message.content.strip() values
Steps == {"fetch", "save_raw", "get_latest", "generate", "save_rec"}

VARIABLES
  today,        \* datetime.date.today()
  raw,          \* table transactions_raw, in insertion order
  rawSeq,       \* sequence transactions_raw_id_seq (last value)
  recs,         \* table recommendations
  recSeq,       \* sequence recommendations_id_seq (last value)
  pc,           \* position of each invocation of main()
  data,         \* main: local data
  latest_data,  \* main: local latest_data
  summary,      \* main: local summary
  out,          \* lines printed by the current invocation
  exit,         \* how the invocation left main()
  nruns,        \* invocations started so far
  cur,          \* history: the invocation started last
  h,            \* history: per invocation, stores at start, calls, own row
  log,          \* history: the last two finished invocations
  written,      \* history: rows inserted into transactions_raw
  upserts,      \* history: per date, the upserts executed
  cfg,          \* the process environment (os.getenv values)
  boot          \* position of the module-level startup code

vars == <<today, raw, rawSeq, recs, recSeq, pc, data, latest_data, summary,
          out, exit, nruns, cur, h, log, written, upserts, cfg, boot>>

store == <<raw, rawSeq, recs, recSeq>>
env == <<cfg, boot>>
locals == <<data, latest_data, summary>>

\* ------------------------------------------------------- pure operations
Range(s) == {s[i] : i \in 1..Len(s)}

\* bool(latest_data) in "if latest_data:"
Truthy(d) == d \notin {None, EmptyDoc}

\* variant: one snapshot per day (the day's earlier rows are replaced)
InsertRaw_ReplaceDay(rows, id, d, p) ==
  Append(SelectSeq(rows, LAMBDA x : x.retrieved_date # d),
         [id |-> id, retrieved_date |-> d, data |-> p])

\* variant: the row is keyed by its date instead of the sequence value
InsertRaw_DateId(rows, id, d, p) ==
  Append(rows, [id |-> d, retrieved_date |-> d, data |-> p])

\* INSERT INTO transactions_raw (retrieved_date, data) VALUES (d, p)
InsertRaw(rows, id, d, p) ==
  Append(rows, [id |-> id, retrieved_date |-> d, data |-> p])

MaxDate(rows) ==
  CHOOSE d \in {rows[i].retrieved_date : i \in 1..Len(rows)} :
    \A i \in 1..Len(rows) : rows[i].retrieved_date <= d

\* variant: the ORDER BY is missing, any row may come first
LatestResults_AnyRow(rows) ==
  IF Len(rows) = 0 THEN {None}
  ELSE {rows[i].data : i \in 1..Len(rows)}

\* SELECT data FROM transactions_raw ORDER BY retrieved_date DESC LIMIT 1;
\* row['data'] if row else None.  The ORDER BY names no second key, so any
\* row of the greatest retrieved_date may be the one returned.
LatestResults(rows) ==
  IF Len(rows) = 0 THEN {None}
  ELSE {rows[i].data : i \in {j \in 1..Len(rows) :
                                rows[j].retrieved_date = MaxDate(rows)}}

\* variant: the conflicting record is deleted and a new one inserted
Upsert_Replace(rs, id, d, s) ==
  {x \in rs : x.date # d} \cup
    {[id |-> id, date |-> d, summary |-> s, recommendations |-> [text |-> s]]}

\* variant: ON CONFLICT (date) DO NOTHING
Upsert_KeepFirst(rs, id, d, s) ==
  IF \E x \in rs : x.date = d
  THEN rs
  ELSE rs \cup {[id |-> id, date |-> d, summary |-> s,
                 recommendations |-> [text |-> s]]}

\* variant: DO UPDATE SET summary = EXCLUDED.summary only
Upsert_SummaryOnly(rs, id, d, s) ==
  IF \E x \in rs : x.date = d
  THEN {IF x.date = d THEN [x EXCEPT !.summary = s] ELSE x : x \in rs}
  ELSE rs \cup {[id |-> id, date |-> d, summary |-> s,
                 recommendations |-> [text |-> s]]}

\* INSERT INTO recommendations ... ON CONFLICT (date) DO UPDATE SET
\* summary = EXCLUDED.summary, recommendations = EXCLUDED.recommendations
Upsert(rs, id, d, s) ==
  IF \E x \in rs : x.date = d
  THEN {IF x.date = d
        THEN [x EXCEPT !.summary = s, !.recommendations = [text |-> s]]
        ELSE x : x \in rs}
  ELSE rs \cup {[id |-> id, date |-> d, summary |-> s,
                 recommendations |-> [text |-> s]]}

\* ----------------------------------------------------------------- state
NoCalls == [s \in Steps |-> 0]

\* the environment a deployment may present
Cfgs ==
  [plaid_env : {"valid", "missing", "invalid"},
   creds : {"set", "missing"},
   token : {"set", "missing"},
   apikey : {"set", "missing"},
   dburl : {"set", "missing"}]

GoodCfg ==
  [plaid_env |-> "valid", creds |-> "set", token |-> "set", apikey |-> "set",
   dburl |-> "set"]

\* the startup code has run with a complete environment
Init ==
  /\ cfg = GoodCfg
  /\ boot = "ready"
  /\ today = 1
  /\ raw = <<>>
  /\ rawSeq = 0
  /\ recs = {}
  /\ recSeq = 0
  /\ pc = [r \in Runs |-> "idle"]
  /\ data = [r \in Runs |-> None]
  /\ latest_data = [r \in Runs |-> None]
  /\ summary = [r \in Runs |-> None]
  /\ out = [r \in Runs |-> <<>>]
  /\ exit = [r \in Runs |-> "none"]
  /\ nruns = 0
  /\ cur = 1
  /\ h = [r \in Runs |-> [raw0 |-> <<>>, recs0 |-> {}, day0 |-> 1,
                          calls |-> NoCalls, failed |-> "none", row |-> 0]]
  /\ log = <<>>
  /\ written = {}
  /\ upserts = [d \in Days |-> [n |-> 0, firstId |-> 0, last |-> None]]

InFlight(r) == pc[r] \notin {"idle", "done"}

Called(r, step) == [h EXCEPT ![r].calls[step] = @ + 1]

\* the history keeps the last two finished invocations
Logged(r, outcome) ==
  LET e == [outcome |-> outcome, day0 |-> h[r].day0, raw0 |-> Len(h[r].raw0)]
  IN IF Len(log) = 0 THEN <<e>> ELSE <<log[Len(log)], e>>

\* the calendar date advances
Tick ==
  /\ today < MaxDay
  /\ today' = today + 1
  /\ UNCHANGED <<env, store, pc, locals, out, exit, nruns, cur, h, log,
                 written, upserts>>

\* main() is invoked: print("Starting daily pipeline...") and enter the try
\* (invocations are interchangeable: a new one takes the lowest free slot)
Start(r) ==
  /\ boot = "ready"
  /\ ~InFlight(r)
  /\ \A q \in Runs : q < r => InFlight(q)
  /\ nruns < MaxRuns
  /\ nruns' = nruns + 1
  /\ cur' = r
  /\ pc' = [pc EXCEPT ![r] = "fetch"]
  /\ data' = [data EXCEPT ![r] = None]
  /\ latest_data' = [latest_data EXCEPT ![r] = None]
  /\ summary' = [summary EXCEPT ![r] = None]
  /\ out' = [out EXCEPT ![r] = <<"start">>]
  /\ exit' = [exit EXCEPT ![r] = "running"]
  /\ h' = [h EXCEPT ![r] = [raw0 |-> raw, recs0 |-> recs, day0 |-> today,
                            calls |-> NoCalls, failed |-> "none",
                            row |-> 0]]
  /\ UNCHANGED <<env, today, store, log, written, upserts>>

\* the scheduler keeps at most one invocation in flight
SeqStart(r) ==
  /\ \A q \in Runs : ~InFlight(q)
  /\ Start(r)

\* variant: the handler catches the fetch error only; others propagate
ExceptHandler_FetchOnly(r, step) ==
  /\ pc' = [pc EXCEPT ![r] = "done"]
  /\ out' = [out EXCEPT ![r] = IF step = "fetch" THEN Append(@, "error") ELSE @]
  /\ exit' = [exit EXCEPT ![r] = IF step = "fetch" THEN "returned" ELSE "raised"]
  /\ h' = [Called(r, step) EXCEPT ![r].failed = step]
  /\ log' = Logged(r, "failed")

\* except Exception as e: print("Error in pipeline:", str(e)); main returns
ExceptHandler(r, step) ==
  /\ pc' = [pc EXCEPT ![r] = "done"]
  /\ out' = [out EXCEPT ![r] = Append(@, "error")]
  /\ exit' = [exit EXCEPT ![r] = "returned"]
  /\ h' = [Called(r, step) EXCEPT ![r].failed = step]
  /\ log' = Logged(r, "failed")

\* data = fetch_transactions(); the API answers authenticated requests only
FetchOk(r) ==
  /\ pc[r] = "fetch"
  /\ cfg.creds = "set" /\ cfg.token = "set"
  /\ \E p \in Payloads : data' = [data EXCEPT ![r] = p]
  /\ pc' = [pc EXCEPT ![r] = "save_raw"]
  /\ h' = Called(r, "fetch")
  /\ UNCHANGED <<env, today, store, latest_data, summary, out, exit, nruns, cur,
                 log, written, upserts>>

\* variant: the failed fetch's empty result is stored before the error shows
FetchFail_WritesNone(r) ==
  /\ pc[r] = "fetch"
  /\ rawSeq' = rawSeq + 1
  /\ raw' = InsertRaw(raw, rawSeq + 1, today, None)
  /\ ExceptHandler(r, "fetch")
  /\ UNCHANGED <<env, today, recs, recSeq, locals, nruns, cur, written, upserts>>

\* plaid_client.transactions_sync raises
FetchFail(r) ==
  /\ pc[r] = "fetch"
  /\ ExceptHandler(r, "fetch")
  /\ UNCHANGED <<env, today, store, locals, nruns, cur, written, upserts>>

\* save_raw(data); print("Transaction data saved.")
SaveRawOk(r) ==
  /\ pc[r] = "save_raw"
  /\ rawSeq' = rawSeq + 1
  /\ raw' = InsertRaw(raw, rawSeq + 1, today, data[r])
  /\ written' = written \cup (Range(raw') \ Range(raw))
  /\ pc' = [pc EXCEPT ![r] = "get_latest"]
  /\ out' = [out EXCEPT ![r] = Append(@, "raw_saved")]
  /\ h' = [Called(r, "save_raw") EXCEPT ![r].row = raw'[Len(raw')].id]
  /\ UNCHANGED <<env, today, recs, recSeq, locals, exit, nruns, cur, log, upserts>>

\* variant: a failed INSERT is tried again
SaveRawFail_Retry(r) ==
  /\ pc[r] = "save_raw"
  /\ rawSeq' \in {rawSeq, rawSeq + 1}
  /\ h' = Called(r, "save_raw")
  /\ UNCHANGED <<env, today, raw, recs, recSeq, pc, locals, out, exit, nruns, cur,
                 log, written, upserts>>

\* the INSERT raises; the sequence value may already have been taken
SaveRawFail(r) ==
  /\ pc[r] = "save_raw"
  /\ rawSeq' \in {rawSeq, rawSeq + 1}
  /\ ExceptHandler(r, "save_raw")
  /\ UNCHANGED <<env, today, raw, recs, recSeq, locals, nruns, cur, written,
                 upserts>>

\* latest_data = get_latest_transactions(); if latest_data: ... else: print
GetLatestOk(r) ==
  /\ pc[r] = "get_latest"
  /\ \E d \in LatestResults(raw) :
       /\ latest_data' = [latest_data EXCEPT ![r] = d]
       /\ IF Truthy(d)
          THEN /\ pc' = [pc EXCEPT ![r] = "generate"]
               /\ UNCHANGED <<out, exit, log>>
          ELSE /\ pc' = [pc EXCEPT ![r] = "done"]
               /\ out' = [out EXCEPT ![r] = Append(@, "no_data")]
               /\ exit' = [exit EXCEPT ![r] = "returned"]
               /\ log' = Logged(r, "no_data")
  /\ h' = Called(r, "get_latest")
  /\ UNCHANGED <<env, today, store, data, summary, nruns, cur, written, upserts>>

\* the SELECT raises
GetLatestFail(r) ==
  /\ pc[r] = "get_latest"
  /\ ExceptHandler(r, "get_latest")
  /\ UNCHANGED <<env, today, store, locals, nruns, cur, written, upserts>>

\* summary = generate_insights(latest_data)
GenerateOk(r) ==
  /\ pc[r] = "generate"
  /\ \E s \in Summaries : summary' = [summary EXCEPT ![r] = s]
  /\ pc' = [pc EXCEPT ![r] = "save_rec"]
  /\ h' = Called(r, "generate")
  /\ UNCHANGED <<env, today, store, data, latest_data, out, exit, nruns, cur, log,
                 written, upserts>>

\* variant: a failed generation stores an empty summary before raising
GenerateFail_SavesPartial(r) ==
  /\ pc[r] = "generate"
  /\ recSeq' = recSeq + 1
  /\ recs' = Upsert(recs, recSeq + 1, today, "")
  /\ ExceptHandler(r, "generate")
  /\ UNCHANGED <<env, today, raw, rawSeq, locals, nruns, cur, written, upserts>>

\* openai.chat.completions.create raises, or choices is empty
GenerateFail(r) ==
  /\ pc[r] = "generate"
  /\ ExceptHandler(r, "generate")
  /\ UNCHANGED <<env, today, store, locals, nruns, cur, written, upserts>>

\* save_recommendation(summary); print("LLM summary saved to DB.")
SaveRecOk(r) ==
  /\ pc[r] = "save_rec"
  /\ recSeq' = recSeq + 1
  /\ recs' = Upsert(recs, recSeq + 1, today, summary[r])
  /\ upserts' = [upserts EXCEPT ![today] =
                   [n |-> @.n + 1,
                    firstId |-> IF @.n = 0
                                THEN (CHOOSE x \in recs' : x.date = today).id
                                ELSE @.firstId,
                    last |-> summary[r]]]
  /\ pc' = [pc EXCEPT ![r] = "done"]
  /\ out' = [out EXCEPT ![r] = Append(@, "llm_saved")]
  /\ exit' = [exit EXCEPT ![r] = "returned"]
  /\ h' = Called(r, "save_rec")
  /\ log' = Logged(r, "success")
  /\ UNCHANGED <<env, today, raw, rawSeq, locals, nruns, cur, written>>

\* the INSERT ... ON CONFLICT raises; the sequence value may have been taken
SaveRecFail(r) ==
  /\ pc[r] = "save_rec"
  /\ recSeq' \in {recSeq, recSeq + 1}
  /\ ExceptHandler(r, "save_rec")
  /\ UNCHANGED <<env, today, raw, rawSeq, recs, locals, nruns, cur, written,
                 upserts>>

Step(r) ==
  \/ FetchOk(r) \/ FetchFail(r)
  \/ SaveRawOk(r) \/ SaveRawFail(r)
  \/ GetLatestOk(r) \/ GetLatestFail(r)
  \/ GenerateOk(r) \/ GenerateFail(r)
  \/ SaveRecOk(r) \/ SaveRecFail(r)

\* one invocation in flight at a time (the design's assumption)
Next ==
  \/ Tick
  \/ \E r \in Runs : SeqStart(r)
  \/ \E r \in Runs : Step(r)

Spec == Init /\ [][Next]_vars

\* --------------------------------------------------------------- startup
\* the process starts with whatever environment it is given
BootInit ==
  /\ cfg \in Cfgs
  /\ boot = "env"
  /\ today = 1
  /\ raw = <<>>
  /\ rawSeq = 0
  /\ recs = {}
  /\ recSeq = 0
  /\ pc = [r \in Runs |-> "idle"]
  /\ data = [r \in Runs |-> None]
  /\ latest_data = [r \in Runs |-> None]
  /\ summary = [r \in Runs |-> None]
  /\ out = [r \in Runs |-> <<>>]
  /\ exit = [r \in Runs |-> "none"]
  /\ nruns = 0
  /\ cur = 1
  /\ h = [r \in Runs |-> [raw0 |-> <<>>, recs0 |-> {}, day0 |-> 1,
                          calls |-> NoCalls, failed |-> "none", row |-> 0]]
  /\ log = <<>>
  /\ written = {}
  /\ upserts = [d \in Days |-> [n |-> 0, firstId |-> 0, last |-> None]]

Pipeline == <<today, store, pc, locals, out, exit, nruns, cur, h, log,
              written, upserts>>

\* PLAID_ENV = os.getenv("PLAID_ENV", "sandbox").lower(); if/elif/else raise
BootEnv ==
  /\ boot = "env"
  /\ boot' = IF cfg.plaid_env = "invalid" THEN "crashed_config" ELSE "plaid"
  /\ UNCHANGED <<cfg, Pipeline>>

\* Configuration(host, api_key={clientId: getenv, secret: getenv}); PlaidApi
BootPlaid ==
  /\ boot = "plaid"
  /\ boot' = "openai"
  /\ UNCHANGED <<cfg, Pipeline>>

\* OpenAI(base_url, api_key=os.getenv("OPENAI_API_KEY")): no key, no client
BootOpenAI ==
  /\ boot = "openai"
  /\ boot' = IF cfg.apikey = "missing" THEN "crashed_config" ELSE "connect"
  /\ UNCHANGED <<cfg, Pipeline>>

\* conn = psycopg2.connect(DATABASE_URL): without a dsn it raises at once,
\* with one it goes to the network and connects or fails
BootConnect ==
  /\ boot = "connect"
  /\ IF cfg.dburl = "missing"
     THEN boot' = "crashed_config"
     ELSE boot' \in {"schema", "crashed_db"}
  /\ UNCHANGED <<cfg, Pipeline>>

\* the two CREATE TABLE IF NOT EXISTS statements
BootSchema ==
  /\ boot = "schema"
  /\ boot' \in {"ready", "crashed_db"}
  /\ UNCHANGED <<cfg, Pipeline>>

\* if __name__ == "__main__": main()  -- once per process
BootStart(r) ==
  /\ nruns = 0
  /\ SeqStart(r)

BootNext ==
  \/ BootEnv \/ BootPlaid \/ BootOpenAI \/ BootConnect \/ BootSchema
  \/ Tick
  \/ \E r \in Runs : BootStart(r)
  \/ \E r \in Runs : Step(r)

SpecBoot == BootInit /\ [][BootNext]_vars

\* a trigger fires while another invocation is still in flight: two
\* invocations overlap, a further trigger waits for one of them to end
ConcStart(r) ==
  /\ nruns < MaxConcRuns
  /\ Cardinality({q \in Runs : InFlight(q)}) < 2
  /\ Start(r)

\* the date changes between bursts of overlapping triggers
ConcTick ==
  /\ \A q \in Runs : ~InFlight(q)
  /\ Tick

\* invocations may overlap (nothing in main.py excludes it)
NextConc ==
  \/ ConcTick
  \/ \E r \in Runs : ConcStart(r)
  \/ \E r \in Runs : Step(r)

SpecConc == Init /\ [][NextConc]_vars

\* ------------------------------------------------------------ properties
\* the invocation started last has finished and none is in flight
Finished(r) == r = cur /\ pc[r] = "done" /\ \A q \in Runs : ~InFlight(q)

\* the read of get_latest_transactions() has returned in invocation r
HasRead(r) ==
  /\ pc[r] \in {"generate", "save_rec", "done"}
  /\ h[r].calls["get_latest"] = 1
  /\ h[r].failed # "get_latest"

RecsOf(d) == {x \in recs : x.date = d}

\* C1: save_raw(P) followed immediately by get_latest_transactions()
\* returns a payload equal to P, whatever the store held before.
C1_RoundTrip ==
  \A r \in Runs : HasRead(r) => latest_data[r] = data[r]

\* C2: two upserts on the same date leave exactly one record for it, with
\* the summary and recommendations of the second write and the id and date
\* of the record the first write created; never two records for one date.
C2_UpsertInPlace ==
  \A d \in Days :
    /\ Cardinality(RecsOf(d)) <= 1
    /\ upserts[d].n >= 1 =>
         \E x \in recs :
           /\ RecsOf(d) = {x}
           /\ x.id = upserts[d].firstId
           /\ x.summary = upserts[d].last
           /\ x.recommendations = [text |-> upserts[d].last]

C2_Witness ==
  \E d \in Days : \E x \in recs :
    /\ upserts[d].n >= 2
    /\ x.date = d
    /\ x.id = upserts[d].firstId
    /\ x.id < recSeq

\* C3: two successful runs of main(), one after the other on one calendar
\* day, add exactly two raw rows and leave exactly one recommendation for
\* that day, carrying the summary the second run generated.
TwoSuccessesToday ==
  /\ Finished(cur)
  /\ Len(log) = 2
  /\ log[1].outcome = "success"
  /\ log[2].outcome = "success"
  /\ log[1].day0 = today

C3_TwoRunsSameDay ==
  TwoSuccessesToday =>
    /\ Len(raw) = log[1].raw0 + 2
    /\ Cardinality(RecsOf(today)) = 1
    /\ \A x \in RecsOf(today) : x.summary = summary[cur]

C3_Witness ==
  /\ TwoSuccessesToday
  /\ Len(raw) >= 2
  /\ raw[Len(raw)].retrieved_date = raw[Len(raw) - 1].retrieved_date
  /\ RecsOf(today) # {}

\* C4: a run whose fetch fails writes nothing: both stores are as they
\* were when the run started.
C4_FetchFailNoWrite ==
  \A r \in Runs :
    (Finished(r) /\ h[r].failed = "fetch") =>
      /\ raw = h[r].raw0
      /\ recs = h[r].recs0
      /\ h[r].calls["save_raw"] = 0
      /\ h[r].calls["save_rec"] = 0

C4_Witness ==
  /\ Finished(cur)
  /\ h[cur].failed = "fetch"
  /\ Len(raw) >= 1
  /\ recs # {}

\* C5: a run whose generation fails after its raw write leaves the raw
\* store with that run's new snapshot and the recommendation store as it
\* was; save_recommendation is not called.
C5_GenerateFailKeepsRecs ==
  \A r \in Runs :
    (Finished(r) /\ h[r].failed = "generate") =>
      /\ Len(raw) = Len(h[r].raw0) + 1
      /\ SubSeq(raw, 1, Len(h[r].raw0)) = h[r].raw0
      /\ raw[Len(raw)].data = data[r]
      /\ raw[Len(raw)].retrieved_date >= h[r].day0
      /\ recs = h[r].recs0
      /\ h[r].calls["save_rec"] = 0

C5_Witness ==
  /\ Finished(cur)
  /\ h[cur].failed = "generate"
  /\ RecsOf(today) # {}

\* C7: a failure of any step ends the run in Failed: one failure message,
\* no later step, and main returns normally.
StepNo(s) ==
  CASE s = "fetch" -> 1 [] s = "save_raw" -> 2 [] s = "get_latest" -> 3
    [] s = "generate" -> 4 [] s = "save_rec" -> 5 [] OTHER -> 0

C7_FailureHandled ==
  \A r \in Runs :
    h[r].failed # "none" =>
      /\ pc[r] = "done"
      /\ exit[r] = "returned"
      /\ Cardinality({i \in 1..Len(out[r]) : out[r][i] = "error"}) = 1
      /\ out[r][Len(out[r])] = "error"
      /\ \A s \in Steps :
           h[r].calls[s] = IF StepNo(s) <= StepNo(h[r].failed) THEN 1 ELSE 0

C7_Witness ==
  /\ h[cur].failed = "save_rec"
  /\ out[cur] = <<"start", "raw_saved", "error">>
  /\ exit[cur] = "returned"

\* C8: after any sequence of failed and successful sequential runs, every
\* raw row an earlier run wrote is still there with its date and payload,
\* and there is at most one recommendation per date, carrying the summary
\* of the last upsert executed for that date.
C8_RerunSafe ==
  /\ \A w \in written : w \in Range(raw)
  /\ \A d \in Days :
       /\ Cardinality(RecsOf(d)) <= 1
       /\ \A x \in RecsOf(d) : upserts[d].n >= 1 /\ x.summary = upserts[d].last
       /\ upserts[d].n >= 1 => RecsOf(d) # {}

C8_Witness ==
  /\ Finished(cur)
  /\ Len(log) = 2
  /\ log[1].outcome = "failed"
  /\ log[2].outcome = "success"
  /\ Len(raw) = log[1].raw0 + 2
  /\ log[1].day0 = today
  /\ upserts[today].n >= 2

\* C9: get_latest_transactions() returns the payload of the row with the
\* greatest retrieved_date and, among those, the greatest id; it returns
\* None exactly when the table is empty.
Newest(rows) ==
  CHOOSE i \in 1..Len(rows) :
    \A j \in 1..Len(rows) :
      \/ rows[j].retrieved_date < rows[i].retrieved_date
      \/ /\ rows[j].retrieved_date = rows[i].retrieved_date
         /\ rows[j].id <= rows[i].id

C9_LatestIsNewest ==
  \A r \in Runs :
    (HasRead(r) /\ r = cur) =>
      /\ latest_data[r] = None <=> Len(raw) = 0
      /\ Len(raw) > 0 => latest_data[r] = raw[Newest(raw)].data

\* C10: the raw store is append-only: every step leaves the existing rows
\* in place, save_raw adds exactly one row, and the new row's id is greater
\* than every id already in the table.
C10_AppendOnly ==
  [][/\ Len(raw') \in {Len(raw), Len(raw) + 1}
     /\ SubSeq(raw', 1, Len(raw)) = raw
     /\ Len(raw') = Len(raw) + 1 =>
          \A i \in 1..Len(raw) : raw[i].id < raw'[Len(raw')].id
     /\ \A r \in Runs :
          (pc[r] = "save_raw" /\ pc'[r] = "get_latest") =>
            Len(raw') = Len(raw) + 1]_vars

C10_Witness ==
  /\ Len(raw) >= 2
  /\ raw[2].id > raw[1].id + 1
  /\ \E r \in Runs : h[r].failed = "save_rec"

\* C12: no step is retried within a run: each of fetch, raw insert, read,
\* completion call and upsert is executed at most once per run, and a run
\* appends at most one raw row.
C12_NoRetry ==
  /\ \A r \in Runs : \A s \in Steps : h[r].calls[s] <= 1
  /\ Len(raw) <= Len(h[cur].raw0) + 1
  /\ Cardinality(written \ Range(h[cur].raw0)) <= 1

C12_Witness ==
  /\ Finished(cur)
  /\ \A s \in Steps : h[cur].calls[s] = 1
  /\ Len(log) = 2
  /\ log[1].outcome = "failed"
  /\ Len(raw) = Len(h[cur].raw0) + 1

\* C13: whenever the read returns a present payload (the table is not
\* empty), main goes on to generate_insights, for every stored payload, an
\* empty document included; the no-data branch is taken only when the
\* table holds no row.
C13_PresentPayloadGenerates ==
  \A r \in Runs :
    HasRead(r) =>
      /\ latest_data[r] # None =>
           (pc[r] \in {"generate", "save_rec"} \/ h[r].calls["generate"] = 1)
      /\ out[r][Len(out[r])] = "no_data" => Len(raw) = 0

\* C14: with one invocation in flight at a time, the payload handed to
\* generate_insights in a run is the payload that same run fetched and
\* inserted, also when earlier runs left rows in the table.
C14_GeneratesFromOwnSnapshot ==
  \A r \in Runs :
    (pc[r] \in {"generate", "save_rec"} \/ h[r].calls["generate"] = 1) =>
      latest_data[r] = data[r]

\* C17: every recommendation record's recommendations field is the
\* envelope {"text": s} of its own summary s, after insert and overwrite.
C17_EnvelopeMatchesSummary ==
  \A x \in recs : x.recommendations = [text |-> x.summary]

C17_Witness ==
  \E x, y \in recs :
    /\ x.date # y.date
    /\ upserts[x.date].n >= 2
    /\ upserts[y.date].n = 1
    /\ x.recommendations = [text |-> upserts[x.date].last]

\* the row invocation r inserted
OwnRow(r) == CHOOSE x \in Range(raw) : x.id = h[r].row

\* C15: overlapping invocations are not isolated from each other: what an
\* invocation reads back is the payload of some row of the greatest date
\* in the table, its own or one another invocation appended meanwhile; the
\* interleaving in which it is the other invocation's row, and the
\* recommendation is generated and stored from it, is reachable.
C15_ReadsAnyNewestSnapshot ==
  \A a \in Runs :
    HasRead(a) =>
      \E x \in Range(raw) :
        /\ x.data = latest_data[a]
        /\ x.retrieved_date >= OwnRow(a).retrieved_date

C15_Witness ==
  \E a, b \in Runs :
    /\ a # b
    /\ h[a].row > 0
    /\ h[b].row > h[a].row
    /\ HasRead(a)
    /\ h[b].calls["get_latest"] = 0
    /\ data[b] # data[a]
    /\ latest_data[a] = data[b]
    /\ \A x \in Range(raw) : x.data = data[b] => x.id = h[b].row
    /\ pc[a] = "done"
    /\ out[a] = <<"start", "raw_saved", "llm_saved">>
    /\ \E x \in recs : x.date = OwnRow(a).retrieved_date /\ x.summary = summary[a]

\* C16: in a run that completes through generation, the recommendation
\* record the run writes carries the retrieved_date of the raw row the same
\* run wrote, also when the date advances between the steps.
C16_RecordDateIsSnapshotDate ==
  [][\A r \in Runs :
       (pc[r] = "save_rec" /\ pc'[r] = "done" /\ h'[r].failed = "none") =>
         \E x \in recs' :
           /\ x.date = OwnRow(r).retrieved_date
           /\ x.summary = summary[r]
           /\ upserts'[x.date].n = upserts[x.date].n + 1]_vars

\* C11: with a required configuration value missing or invalid, startup
\* fails before any network call (database connection, aggregation API
\* call, completion call) and before any pipeline step.
BadConfig ==
  \/ cfg.plaid_env = "invalid"
  \/ cfg.creds = "missing"
  \/ cfg.token = "missing"
  \/ cfg.apikey = "missing"
  \/ cfg.dburl = "missing"

C11_FailFast ==
  BadConfig =>
    /\ boot \notin {"schema", "ready", "crashed_db"}
    /\ nruns = 0
    /\ \A r \in Runs : \A s \in Steps : h[r].calls[s] = 0

====
